---- MODULE Spec2Model ----
(***************************************************************************)
(* Model of merge_branch.py: merging one git branch into another, or a     *)
(* chain of branches "up", through the git_calls gateway.                  *)
(*                                                                         *)
(* A string is a sequence of one-character strings; the empty string is    *)
(* <<>>.  Every git_calls function is an external command: its exit status *)
(* (and the branch set / SHA it returns) is chosen nondeterministically.   *)
(* An assert that fails raises AssertionError, which nothing catches: the  *)
(* run ends at pc = "failed".                                              *)
(***************************************************************************)
EXTENDS Integers, Sequences, FiniteSets, TLC

\* ------------------------------------------------------------ bounds / inputs

\* number of distinct SHA-1 values git_show_sha may return
MaxSha == 2

A == <<"a">>
B == <<"b">>
C == <<"c">>
Empty == <<>>

\* values of --from and --to on the command line ('' is the default)
OptionNames == {Empty, A, B}

\* values of --up on the command line ('' is the default)
BranchListStrs ==
    { Empty,
      <<" ">>,
      <<"a">>,
      <<"a", " ", "b">>,
      <<"b", " ", " ", "a", " ">>,
      <<"a", "b", " ", "c">>,
      <<"a", " ", "b", " ", "c">> }

\* longest --up string of the planning specification
MaxStrLen == 5

\* characters of an --up string of the planning specification
Chars == {" ", "a", "b"}

\* every string of at most n characters
StrsUpTo(n) == UNION { [1..k -> Chars] : k \in 0..n }

\* branches a repository may hold: git_track_all returns a subset
RepoBranches == {A, B, C}

\* exit statuses of a git command: 0 is success
Rets == {0, 1}

Shas == 1..MaxSha

\* ------------------------------------------------------------ repository

\* a change pushed to origin, and a change committed locally and not pushed
Changes == {"x", "u"}

\* a clone in which only a holds the change x on origin and b holds the
\* unpushed change u
SampleRepo ==
    [origin |-> [b \in RepoBranches |-> IF b = A THEN {"x"} ELSE {}],
     local  |-> [b \in RepoBranches |-> IF b = A THEN {"x"}
                                        ELSE IF b = B THEN {"u"} ELSE {}]]

\* every clone: origin holds x on any of its branches, and any local branch
\* may hold the unpushed change u besides what origin holds
AllRepos ==
    { [origin |-> o, local |-> [b \in RepoBranches |-> o[b] \cup e[b]]] :
        o \in [RepoBranches -> SUBSET {"x"}], e \in [RepoBranches -> SUBSET {"u"}] }

\* git reset to origin/<target> with `co` checked out, exit status r: the
\* checked-out branch is moved to what origin holds for target
GitReset(rp, co, target, r) ==
    IF r = 0 /\ co \in RepoBranches /\ target \in RepoBranches
    THEN [rp EXCEPT !.local[co] = rp.origin[target]]
    ELSE rp

\* git pull of branch b with `co` checked out, exit status r: the checked-out
\* branch gains what origin holds for b
GitPull(rp, co, b, r) ==
    IF r = 0 /\ co \in RepoBranches /\ b \in RepoBranches
    THEN [rp EXCEPT !.local[co] = rp.local[co] \cup rp.origin[b]]
    ELSE rp

\* git merge of the local branch w with `co` checked out, exit status r: the
\* checked-out branch gains what w holds
GitMerge(rp, co, w, r) ==
    IF r = 0 /\ co \in RepoBranches /\ w \in RepoBranches
    THEN [rp EXCEPT !.local[co] = rp.local[co] \cup rp.local[w]]
    ELSE rp

\* ------------------------------------------------------------ python helpers

\* str.split(): the maximal runs of non-whitespace characters, in order
RECURSIVE SplitFrom(_, _, _)
SplitFrom(s, i, word) ==
    IF i > Len(s)
    THEN IF word = <<>> THEN <<>> ELSE <<word>>
    ELSE IF s[i] = " "
         THEN IF word = <<>>
              THEN SplitFrom(s, i + 1, <<>>)
              ELSE <<word>> \o SplitFrom(s, i + 1, <<>>)
         ELSE SplitFrom(s, i + 1, Append(word, s[i]))

split(s) == SplitFrom(s, 1, <<>>)

\* lst[:-1]
AllButLast(lst) == IF Len(lst) = 0 THEN <<>> ELSE SubSeq(lst, 1, Len(lst) - 1)

\* lst[1:]
AllButFirst(lst) == IF Len(lst) = 0 THEN <<>> ELSE SubSeq(lst, 2, Len(lst))

Min(x, y) == IF x <= y THEN x ELSE y

\* list(zip(xs, ys)): pairs up to the shorter of the two
zip(xs, ys) == [k \in 1..Min(Len(xs), Len(ys)) |-> <<xs[k], ys[k]>>]

\* zip that pairs every element with itself: a faulty variant of MergeList
MergeList_SelfPairs(lst) == zip(AllButLast(lst), AllButLast(lst))

\* zip(branch_list[:-1], branch_list[1:])
MergeList(lst) == zip(AllButLast(lst), AllButFirst(lst))

\* bool(s) of a string
Truthy(s) == s # <<>>

\* ------------------------------------------------------------ state

VARIABLES
    options,        \* optparse result: branch_list_str, whence, whither, do_push, clean_branches, debugging
    pc,             \* next statement of the run
    branch_list,    \* merge_up: the ordered branch list
    merge_list,     \* merge_up: the planned merges
    i,              \* merge_up: number of loop iterations begun
    whence,         \* merge_branches: argument
    whither,        \* merge_branches: argument
    tracked,        \* merge_branches: branch_list returned by git_track_all
    exec_result,    \* merge_branches: .ret of the local exec_result (-1: unbound)
    cub,            \* checkout_update_branch: [n: which call (1, 2), ret: .ret of its local exec_result]
    sha_before,     \* merge_branches: local (0: unbound)
    sha_after,      \* merge_branches: local (0: unbound)
    git_debug,      \* git_calls: flag set by git_debugging ("unset" before)
    checked_out,    \* working tree: branch last checked out successfully
    repo,           \* repository: [local, origin], the changes each branch holds
    calls,          \* history: git commands run, [op, arg, ret, n] with n the Merge Operation
    started,        \* history: <<whence, whither>> of every merge_branches invocation
    completed,      \* history: number of merge_branches invocations that returned
    printed,        \* history: what the report block of the current merge_branches printed
    reports,        \* history: kinds of message passed to report_failure
    failure         \* history: why the run failed ("none" while it has not)

vars == <<options, pc, branch_list, merge_list, i, whence, whither, tracked,
          exec_result, cub, sha_before, sha_after, git_debug, checked_out,
          repo, calls, started, completed, printed, reports, failure>>

mu_vars == <<branch_list, merge_list, i>>
mb_locals == <<tracked, exec_result, cub, sha_before, sha_after>>
hist_vars == <<calls, started, completed, printed, reports, failure>>

\* the state after parser.parse_args(): the options drawn from opts, the
\* repository the script is run in from repos
InitOf(opts, repos) ==
    /\ options \in opts
    /\ repo \in repos
    /\ pc = "main"
    /\ branch_list = <<>>
    /\ merge_list = <<>>
    /\ i = 0
    /\ whence = <<>>
    /\ whither = <<>>
    /\ tracked = {}
    /\ exec_result = -1
    /\ cub = [n |-> 0, ret |-> -1]
    /\ sha_before = 0
    /\ sha_after = 0
    /\ git_debug = "unset"
    /\ checked_out = <<>>
    /\ calls = <<>>
    /\ started = <<>>
    /\ completed = 0
    /\ printed = "nothing"
    /\ reports = <<>>
    /\ failure = "none"

\* the state after parser.parse_args(), the --up string drawn from strs
InitWith(strs) ==
    InitOf([branch_list_str : strs,
            whence : OptionNames,
            whither : OptionNames,
            do_push : BOOLEAN,
            clean_branches : BOOLEAN,
            debugging : BOOLEAN],
           {SampleRepo})

Init == InitWith(BranchListStrs)

\* ------------------------------------------------------------ shared steps

\* the record a git command leaves in the history
Call(op, arg, ret) == [op |-> op, arg |-> arg, ret |-> ret, n |-> Len(started)]

\* check_error whose assert does not end the run: a faulty variant
check_error_NoHalt(condition, kind, next) ==
    /\ pc' = next
    /\ IF condition
       THEN UNCHANGED <<reports, failure>>
       ELSE /\ reports' = Append(reports, kind)
            /\ failure' = kind

\* check_error(condition, msg), then the statement at `next`:
\* a false condition is reported to report_failure and the assert ends the run
check_error(condition, kind, next) ==
    IF condition
    THEN /\ pc' = next
         /\ UNCHANGED <<reports, failure>>
    ELSE /\ pc' = "failed"
         /\ reports' = Append(reports, kind)
         /\ failure' = kind

\* a bare assert that fails: AssertionError, report_failure is not called
assert_fails(kind) ==
    /\ pc' = "failed"
    /\ failure' = kind
    /\ UNCHANGED reports

\* call merge_branches(w1, w2, ...): bind the arguments, fresh locals
call_merge_branches(w1, w2) ==
    /\ whence' = w1
    /\ whither' = w2
    /\ started' = Append(started, <<w1, w2>>)
    /\ tracked' = {}
    /\ exec_result' = -1
    /\ cub' = [n |-> 0, ret |-> -1]
    /\ sha_before' = 0
    /\ sha_after' = 0
    /\ printed' = "nothing"
    /\ pc' = "config_set"

\* merge_branches returning past the loop of merge_up, as a `return` or
\* `break` after the call of line 142 would make it
ReturnPc_AlwaysDone == "done"

\* where merge_branches returns to: the loop of merge_up, or the end of main
ReturnPc == IF Truthy(options.branch_list_str) THEN "for" ELSE "done"

\* ------------------------------------------------------------ main, merge_up

\* main with the assert on --up skipped: a faulty variant of main
main_NoUsageAssert ==
    /\ pc = "main"
    /\ UNCHANGED repo
    /\ IF Truthy(options.branch_list_str)
       THEN /\ branch_list' = split(options.branch_list_str)
            /\ pc' = "merge_up"
            /\ UNCHANGED <<merge_list, i, whence, whither, mb_locals, hist_vars>>
       ELSE /\ call_merge_branches(options.whence, options.whither)
            /\ UNCHANGED <<mu_vars, calls, completed, reports, failure>>
    /\ UNCHANGED <<options, git_debug, checked_out>>

\* main, lines 165-173
main ==
    /\ pc = "main"
    /\ UNCHANGED repo
    /\ IF Truthy(options.branch_list_str)
       THEN IF ~(Truthy(options.whence) \/ Truthy(options.whither))
            THEN /\ branch_list' = split(options.branch_list_str)
                 /\ pc' = "merge_up"
                 /\ UNCHANGED <<merge_list, i, whence, whither, mb_locals, hist_vars>>
            ELSE /\ assert_fails("usage")
                 /\ UNCHANGED <<mu_vars, whence, whither, mb_locals,
                                calls, started, completed, printed>>
       ELSE /\ call_merge_branches(options.whence, options.whither)
            /\ UNCHANGED <<mu_vars, calls, completed, reports, failure>>
    /\ UNCHANGED <<options, git_debug, checked_out>>

\* merge_up, lines 135-139: the plan is built and printed
merge_up ==
    /\ pc = "merge_up"
    /\ UNCHANGED repo
    /\ merge_list' = MergeList(branch_list)
    /\ pc' = "for"
    /\ UNCHANGED <<options, branch_list, i, whence, whither, mb_locals,
                   git_debug, checked_out, hist_vars>>

\* the loop with the pair taken from the wrong end: a faulty variant
merge_up_for_Reversed ==
    /\ pc = "for"
    /\ UNCHANGED repo
    /\ LET pairs == MergeList(branch_list) IN
       IF i < Len(pairs)
       THEN /\ i' = i + 1
            /\ call_merge_branches(pairs[Len(pairs) - i][1], pairs[Len(pairs) - i][2])
            /\ UNCHANGED <<branch_list, merge_list, calls, completed, reports, failure>>
       ELSE /\ pc' = "done"
            /\ UNCHANGED <<mu_vars, whence, whither, mb_locals, hist_vars>>
    /\ UNCHANGED <<options, git_debug, checked_out>>

\* the loop over zip(branch_list, branch_list[1:] + branch_list[-1:]): the
\* slices misplaced, so that a lone branch is paired with itself
merge_up_for_NoSlice ==
    /\ pc = "for"
    /\ UNCHANGED repo
    /\ LET pairs == zip(branch_list,
                        AllButFirst(branch_list)
                            \o SubSeq(branch_list, Len(branch_list), Len(branch_list))) IN
       IF i < Len(pairs)
       THEN /\ i' = i + 1
            /\ call_merge_branches(pairs[i + 1][1], pairs[i + 1][2])
            /\ UNCHANGED <<branch_list, merge_list, calls, completed, reports, failure>>
       ELSE /\ pc' = "done"
            /\ UNCHANGED <<mu_vars, whence, whither, mb_locals, hist_vars>>
    /\ UNCHANGED <<options, git_debug, checked_out>>

\* merge_up, lines 141-142: one iteration of the loop, or its end
merge_up_for ==
    /\ pc = "for"
    /\ UNCHANGED repo
    /\ LET pairs == zip(AllButLast(branch_list), AllButFirst(branch_list)) IN
       IF i < Len(pairs)
       THEN /\ i' = i + 1
            /\ call_merge_branches(pairs[i + 1][1], pairs[i + 1][2])
            /\ UNCHANGED <<branch_list, merge_list, calls, completed, reports, failure>>
       ELSE /\ pc' = "done"
            /\ UNCHANGED <<mu_vars, whence, whither, mb_locals, hist_vars>>
    /\ UNCHANGED <<options, git_debug, checked_out>>

\* ------------------------------------------------------------ merge_branches

mb_frame == UNCHANGED <<options, mu_vars, whence, whither, checked_out, started, completed>>

\* lines 54-58: git_debugging(debugging), then git_config_set and its check
git_config_set ==
    /\ pc = "config_set"
    /\ UNCHANGED repo
    /\ git_debug' = options.debugging
    /\ \E r \in Rets :
        /\ exec_result' = r
        /\ calls' = Append(calls, Call("config_set", <<"merge.renameLimit", "999999">>, r))
        /\ check_error(r = 0, "gateway", "reset_head")
    /\ mb_frame
    /\ UNCHANGED <<tracked, cub, sha_before, sha_after, printed>>

\* lines 61-62: git_reset('HEAD'); its result is dropped and the check reads
\* the exec_result that git_config_set left
git_reset_head ==
    /\ pc = "reset_head"
    /\ UNCHANGED repo
    /\ \E r \in Rets :
        calls' = Append(calls, Call("reset", <<"HEAD">>, r))
    /\ check_error(exec_result = 0, "gateway", "fetch")
    /\ mb_frame
    /\ UNCHANGED <<mb_locals, git_debug, printed>>

\* lines 65-66
git_fetch ==
    /\ pc = "fetch"
    /\ UNCHANGED repo
    /\ \E r \in Rets :
        /\ exec_result' = r
        /\ calls' = Append(calls, Call("fetch", <<>>, r))
        /\ check_error(r = 0, "gateway", "track_all")
    /\ mb_frame
    /\ UNCHANGED <<tracked, cub, sha_before, sha_after, git_debug, printed>>

\* line 69: the branch set is kept, exec_result is bound and never checked
git_track_all ==
    /\ pc = "track_all"
    /\ UNCHANGED repo
    /\ \E r \in Rets, bs \in SUBSET RepoBranches :
        /\ exec_result' = r
        /\ tracked' = bs
        /\ calls' = Append(calls, Call("track_all",
                        IF options.clean_branches THEN <<"clean">> ELSE <<>>, r))
    /\ pc' = "validate"
    /\ mb_frame
    /\ UNCHANGED <<cub, sha_before, sha_after, git_debug, printed, reports, failure>>

\* lines 71-78 without the two membership checks: a faulty variant
validate_NoMembership ==
    /\ pc = "validate"
    /\ UNCHANGED repo
    /\ check_error(Truthy(whence) /\ Truthy(whither), "precondition", "checkout")
    /\ cub' = IF pc' = "checkout" THEN [n |-> 1, ret |-> -1] ELSE cub
    /\ mb_frame
    /\ UNCHANGED <<tracked, exec_result, sha_before, sha_after, git_debug, printed, calls>>

\* lines 71-78: `whence and whither`, then whither, then whence in branch_list;
\* line 87 enters checkout_update_branch(whence)
validate ==
    /\ pc = "validate"
    /\ UNCHANGED repo
    /\ IF ~(Truthy(whence) /\ Truthy(whither))
       THEN check_error(FALSE, "precondition", "checkout")
       ELSE IF whither \notin tracked
            THEN check_error(FALSE, "precondition", "checkout")
            ELSE check_error(whence \in tracked, "precondition", "checkout")
    /\ cub' = IF pc' = "checkout" THEN [n |-> 1, ret |-> -1] ELSE cub
    /\ mb_frame
    /\ UNCHANGED <<tracked, exec_result, sha_before, sha_after, git_debug, printed, calls>>

\* ------------------------------------------------------------ checkout_update_branch

\* lines 87-88 with the two branches exchanged: whither first, whence second
branch_Swapped == IF cub.n = 1 THEN whither ELSE whence

\* the argument of the current checkout_update_branch call
branch == IF cub.n = 1 THEN whence ELSE whither

cub_frame == UNCHANGED <<options, mu_vars, whence, whither, tracked, exec_result,
                         sha_before, sha_after, git_debug, started, completed, printed>>

\* lines 28-29 with the status of git_checkout ignored: a faulty variant
git_checkout_Unchecked ==
    /\ pc = "checkout"
    /\ UNCHANGED repo
    /\ \E r \in Rets :
        /\ cub' = [cub EXCEPT !.ret = r]
        /\ calls' = Append(calls, Call("checkout", branch, r))
        /\ checked_out' = IF r = 0 THEN branch ELSE checked_out
        /\ check_error(TRUE, "gateway", "reset_origin")
    /\ cub_frame

\* lines 28-29
git_checkout ==
    /\ pc = "checkout"
    /\ UNCHANGED repo
    /\ \E r \in Rets :
        /\ cub' = [cub EXCEPT !.ret = r]
        /\ calls' = Append(calls, Call("checkout", branch, r))
        /\ checked_out' = IF r = 0 THEN branch ELSE checked_out
        /\ check_error(r = 0, "gateway", "reset_origin")
    /\ cub_frame

\* checkout_update_branch without the reset of lines 32-33
git_reset_origin_Skipped ==
    /\ pc = "reset_origin"
    /\ pc' = "pull"
    /\ cub_frame
    /\ UNCHANGED <<cub, checked_out, repo, calls, reports, failure>>

\* lines 32-33: git_reset('origin/<branch>'); its result is dropped and the
\* check reads the exec_result that git_checkout left
git_reset_origin ==
    /\ pc = "reset_origin"
    /\ \E r \in Rets :
        /\ calls' = Append(calls, Call("reset", <<"origin/">> \o branch, r))
        /\ repo' = GitReset(repo, checked_out, branch, r)
    /\ check_error(cub.ret = 0, "gateway", "pull")
    /\ cub_frame
    /\ UNCHANGED <<cub, checked_out>>

\* lines 35-36 with line 88, checkout_update_branch(whither), left out
git_pull_SkipWhither ==
    /\ pc = "pull"
    /\ \E r \in Rets :
        /\ calls' = Append(calls, Call("pull", branch, r))
        /\ repo' = GitPull(repo, checked_out, branch, r)
        /\ check_error(r = 0, "gateway", "sha_before")
        /\ cub' = [cub EXCEPT !.ret = r]
    /\ cub_frame
    /\ UNCHANGED checked_out

\* lines 35-36, then the return: line 88 enters checkout_update_branch(whither),
\* line 91 follows its return
git_pull ==
    /\ pc = "pull"
    /\ \E r \in Rets :
        /\ calls' = Append(calls, Call("pull", branch, r))
        /\ repo' = GitPull(repo, checked_out, branch, r)
        /\ check_error(r = 0, "gateway", IF cub.n = 1 THEN "checkout" ELSE "sha_before")
        /\ cub' = IF r = 0 /\ cub.n = 1
                  THEN [n |-> 2, ret |-> -1]
                  ELSE [cub EXCEPT !.ret = r]
    /\ cub_frame
    /\ UNCHANGED checked_out

\* ------------------------------------------------------------ merge_branches, the merge

\* lines 91-92
git_show_sha_before ==
    /\ pc = "sha_before"
    /\ UNCHANGED repo
    /\ \E r \in Rets, sha \in Shas :
        /\ exec_result' = r
        /\ sha_before' = sha
        /\ calls' = Append(calls, Call("show_sha", <<>>, r))
        /\ check_error(r = 0, "gateway", "merge")
    /\ mb_frame
    /\ UNCHANGED <<tracked, cub, sha_after, git_debug, printed>>

\* lines 95-96
git_merge ==
    /\ pc = "merge"
    /\ \E r \in Rets :
        /\ exec_result' = r
        /\ calls' = Append(calls, Call("merge", whence, r))
        /\ repo' = GitMerge(repo, checked_out, whence, r)
        /\ check_error(r = 0, "gateway", "sha_after")
    /\ mb_frame
    /\ UNCHANGED <<tracked, cub, sha_before, sha_after, git_debug, printed>>

\* lines 99-100
git_show_sha_after ==
    /\ pc = "sha_after"
    /\ UNCHANGED repo
    /\ \E r \in Rets, sha \in Shas :
        /\ exec_result' = r
        /\ sha_after' = sha
        /\ calls' = Append(calls, Call("show_sha", <<>>, r))
        /\ check_error(r = 0, "gateway", "report")
    /\ mb_frame
    /\ UNCHANGED <<tracked, cub, sha_before, git_debug, printed>>

\* lines 106-115 with git_show run whatever the two SHAs are: a faulty variant
report_AlwaysShow ==
    /\ pc = "report"
    /\ UNCHANGED repo
    /\ \E r \in Rets :
        /\ exec_result' = r
        /\ calls' = Append(calls, Call("show", <<>>, r))
        /\ printed' = "log"
    /\ pc' = "push"
    /\ mb_frame
    /\ UNCHANGED <<tracked, cub, sha_before, sha_after, git_debug, reports, failure>>

\* lines 106-115: 'No change', or the output of git_show, whose status is not checked
report ==
    /\ pc = "report"
    /\ UNCHANGED repo
    /\ IF sha_before = sha_after
       THEN /\ printed' = "No change"
            /\ UNCHANGED <<exec_result, calls>>
       ELSE \E r \in Rets :
            /\ exec_result' = r
            /\ calls' = Append(calls, Call("show", <<>>, r))
            /\ printed' = "log"
    /\ pc' = "push"
    /\ mb_frame
    /\ UNCHANGED <<tracked, cub, sha_before, sha_after, git_debug, reports, failure>>

\* lines 118-121 without the `assert False` of line 119
push_NoAssert ==
    /\ pc = "push"
    /\ UNCHANGED repo
    /\ IF options.do_push
       THEN \E r \in Rets :
            /\ exec_result' = r
            /\ calls' = Append(calls, Call("push", whither, r))
            /\ check_error(r = 0, "gateway", ReturnPc)
            /\ completed' = IF r = 0 THEN completed + 1 ELSE completed
       ELSE /\ pc' = ReturnPc
            /\ completed' = completed + 1
            /\ UNCHANGED <<exec_result, calls, reports, failure>>
    /\ UNCHANGED <<options, mu_vars, whence, whither, tracked, cub, sha_before,
                   sha_after, git_debug, checked_out, started, printed>>

\* lines 118-121, then the return of merge_branches: with do_push the
\* `assert False` of line 119 fails, so lines 120-121 never run
push ==
    /\ pc = "push"
    /\ UNCHANGED repo
    /\ IF options.do_push
       THEN /\ assert_fails("assert_false")
            /\ UNCHANGED completed
       ELSE /\ pc' = ReturnPc
            /\ completed' = completed + 1
            /\ UNCHANGED <<reports, failure>>
    /\ UNCHANGED <<options, mu_vars, whence, whither, mb_locals, git_debug,
                   checked_out, calls, started, printed>>

\* ------------------------------------------------------------ specification

Next ==
    \/ main
    \/ merge_up
    \/ merge_up_for
    \/ git_config_set
    \/ git_reset_head
    \/ git_fetch
    \/ git_track_all
    \/ validate
    \/ git_checkout
    \/ git_reset_origin
    \/ git_pull
    \/ git_show_sha_before
    \/ git_merge
    \/ git_show_sha_after
    \/ report
    \/ push

Spec == Init /\ [][Next]_vars

\* the run with every statement eventually executed: the script is one
\* sequential thread and every git command returns
FairSpec == Spec /\ WF_vars(Next)

\* the chained run --up 'a b c' without --push, in every clone
InitContent ==
    InitOf([branch_list_str : {<<"a", " ", "b", " ", "c">>},
            whence : {Empty},
            whither : {Empty},
            do_push : {FALSE},
            clean_branches : {FALSE},
            debugging : {FALSE}],
           AllRepos)

ContentSpec == InitContent /\ [][Next]_vars

\* the run up to the plan of merge_up, over every short --up string
InitPlan == InitWith(StrsUpTo(MaxStrLen))

NextPlan ==
    \/ main
    \/ merge_up

PlanSpec == InitPlan /\ [][NextPlan]_vars

\* ------------------------------------------------------------ claims

\* the calls of the Merge Operation in progress (or last begun)
OpCalls == SelectSeq(calls, LAMBDA c : c.n = Len(started))

\* number of calls of `op` in the sequence cs
Count(cs, op) == Cardinality({k \in 1..Len(cs) : cs[k].op = op})

\* a chained run in which merge_up has built its plan
PlanBuilt ==
    /\ Truthy(options.branch_list_str)
    /\ pc \notin {"main", "merge_up"}
    /\ failure # "usage"

\* C1: the plan merge_up builds from [b1,...,bn] is [(b1,b2),...,(b(n-1),bn)]:
\* n-1 pairs, the k-th being (bk, b(k+1)), and no pair when n < 2
C1_PlanIsAdjacentPairs ==
    PlanBuilt =>
        /\ Len(merge_list) = (IF Len(branch_list) < 2 THEN 0 ELSE Len(branch_list) - 1)
        /\ \A k \in 1..Len(merge_list) :
               merge_list[k] = <<branch_list[k], branch_list[k + 1]>>

C1_Witness ==
    /\ PlanBuilt
    /\ branch_list = <<B, A, B>>
    /\ merge_list = << <<B, A>>, <<A, B>> >>

\* C2: in a chained run, once a Merge Operation has failed no further Merge
\* Operation is started and no further git command is run
C2_ChainFailFast ==
    [][(Truthy(options.branch_list_str) /\ failure \notin {"none", "usage"})
          => (started' = started /\ calls' = calls)]_vars

C2_Witness ==
    /\ pc = "failed"
    /\ branch_list = <<A, B, C>>
    /\ started = << <<A, B>> >>
    /\ failure = "gateway"

\* git_track_all of the current Merge Operation has returned and lines 71-78 have run
Validated ==
    /\ Count(OpCalls, "track_all") = 1
    /\ pc # "validate"

\* C3: when whence or whither is not in the branch set git_track_all returned,
\* the Merge Operation fails on a precondition and git_merge is not run in it
C3_UnknownBranchNoMerge ==
    (Validated /\ (whence \notin tracked \/ whither \notin tracked)) =>
        /\ pc = "failed"
        /\ failure = "precondition"
        /\ Count(OpCalls, "merge") = 0

C3_Witness ==
    /\ Validated
    /\ Truthy(whence)
    /\ whence \notin tracked
    /\ whither \in tracked
    /\ pc = "failed"

\* C4 (as claimed): a Merge Operation given an empty whence or whither runs
\* no git command at all
C4_EmptyNameNoGatewayCall ==
    (started # <<>> /\ (whence = <<>> \/ whither = <<>>)) => OpCalls = <<>>

\* C5 (as claimed): a git command that returns a non-zero status is the last
\* one of the run, and the run has failed
C5_NonZeroStatusIsFatal ==
    \A k \in 1..Len(calls) :
        calls[k].ret # 0 => (k = Len(calls) /\ pc = "failed")

\* git_checkout or git_pull of checkout_update_branch(whence) returned non-zero
\* in the current Merge Operation
WhenceSyncFailed ==
    \E k \in 1..Len(OpCalls) :
        /\ OpCalls[k].op \in {"checkout", "pull"}
        /\ OpCalls[k].ret # 0
        /\ \A j \in 1..(k - 1) : OpCalls[j].op # "pull"

\* C6: when the checkout or the pull of whence fails, the Merge Operation runs
\* neither the synchronization of whither, nor git_merge, nor either
\* git_show_sha, nor the report, nor the push
C6_WhenceSyncFailureStopsAll ==
    WhenceSyncFailed =>
        /\ pc = "failed"
        /\ Count(OpCalls, "checkout") = 1
        /\ Count(OpCalls, "pull") <= 1
        /\ Count(OpCalls, "merge") = 0
        /\ Count(OpCalls, "show_sha") = 0
        /\ Count(OpCalls, "show") = 0
        /\ Count(OpCalls, "push") = 0
        /\ sha_before = 0
        /\ sha_after = 0
        /\ printed = "nothing"

C6_Witness ==
    /\ WhenceSyncFailed
    /\ Count(OpCalls, "pull") = 1
    /\ OpCalls[Len(OpCalls)].op = "pull"
    /\ whence # whither
    /\ pc = "failed"

\* the last git command run is git_push(whither)
PushIsLastCall ==
    /\ calls # <<>>
    /\ calls[Len(calls)].op = "push"
    /\ calls[Len(calls)].arg = whither

\* C7 (as claimed): with push requested, the step after the report runs
\* git_push(whither) and the run does not fail there
C7_PushIsInvoked ==
    [][(pc = "push" /\ options.do_push) => (PushIsLastCall' /\ pc' # "failed")]_vars

\* the report block of the current Merge Operation has run
Reported ==
    \/ pc = "push"
    \/ pc \in {"for", "done"} /\ started # <<>> /\ completed = Len(started)
    \/ pc = "failed" /\ failure = "assert_false"

\* C8: once the report has run, equal SHAs before and after the merge mean
\* 'No change' was printed and git_show was not run; different SHAs mean
\* git_show was run exactly once in the Merge Operation; it is not run earlier
C8_ReportOutcome ==
    /\ Reported =>
          IF sha_before = sha_after
          THEN printed = "No change" /\ Count(OpCalls, "show") = 0
          ELSE printed = "log" /\ Count(OpCalls, "show") = 1
    /\ ~Reported => Count(OpCalls, "show") = 0

C8_Witness ==
    /\ pc = "push"
    /\ sha_before = sha_after
    /\ printed = "No change"
    /\ Count(OpCalls, "merge") = 1

\* C9: in a chained run the Merge Operations begun are the first pairs of the
\* branch list, in order and once each; one begins only when every earlier one
\* has returned; the run is done only when all have; each pair's whither is
\* the next pair's whence
C9_ChainInPlanOrder ==
    PlanBuilt =>
        /\ Len(started) = i
        /\ Len(started) <= Len(branch_list) - 1 \/ started = <<>>
        /\ \A k \in 1..Len(started) :
               started[k] = <<branch_list[k], branch_list[k + 1]>>
        /\ \A k \in 1..(Len(started) - 1) : started[k][2] = started[k + 1][1]
        /\ completed \in {Len(started) - 1, Len(started)}
        /\ pc \in {"config_set", "failed"} /\ started # <<>>
               => completed = Len(started) - 1
        /\ pc = "done" => /\ Len(started) = Len(merge_list)
                          /\ completed = Len(started)

C9_Witness ==
    /\ PlanBuilt
    /\ pc = "done"
    /\ started = << <<A, B>>, <<B, C>> >>
    /\ completed = 2

\* C10: --up given together with --from or --to ends the run on the assert of
\* line 168: no Merge Operation is started and no git command is run
C10_UsageError ==
    (/\ pc # "main"
     /\ Truthy(options.branch_list_str)
     /\ (Truthy(options.whence) \/ Truthy(options.whither)))
    => /\ pc = "failed"
       /\ failure = "usage"
       /\ started = <<>>
       /\ calls = <<>>
       /\ branch_list = <<>>

C10_Witness ==
    /\ split(options.branch_list_str) = <<A, B>>
    /\ options.whence = A
    /\ options.whither = <<>>
    /\ pc = "failed"
    /\ failure = "usage"

\* C11: merge_up on a list of 0 or 1 branch starts no Merge Operation, runs no
\* git command and ends the run as done, without any failure
C11_ShortListDoesNothing ==
    (PlanBuilt /\ Len(branch_list) < 2) =>
        /\ started = <<>>
        /\ calls = <<>>
        /\ completed = 0
        /\ reports = <<>>
        /\ failure = "none"
        /\ pc \in {"for", "done"}
        /\ merge_list = <<>>

C11_Witness ==
    /\ PlanBuilt
    /\ branch_list = <<A>>
    /\ pc = "done"
    /\ calls = <<>>

\* C12 (as claimed): in checkout_update_branch the reset follows a checkout
\* that returned 0, the pull follows a reset that returned 0, and a non-zero
\* status of any of the three is the last command of the run, which has failed
C12_SyncStepsGuardEachOther ==
    \A k \in 1..Len(calls) :
        /\ (calls[k].op = "reset" /\ calls[k].arg # <<"HEAD">>)
              => (calls[k - 1].op = "checkout" /\ calls[k - 1].ret = 0)
        /\ calls[k].op = "pull"
              => (calls[k - 1].op = "reset" /\ calls[k - 1].ret = 0)
        /\ (calls[k].op \in {"checkout", "pull"}
                \/ (calls[k].op = "reset" /\ calls[k].arg # <<"HEAD">>))
              => (calls[k].ret # 0 => (k = Len(calls) /\ pc = "failed"))

\* the git commands of a Merge Operation whose checks all pass, in the order
\* of lines 57-113: <<op, arg>>, the last one only when the two SHAs differ
ExpectedCalls ==
    << <<"config_set", <<"merge.renameLimit", "999999">> >>,
       <<"reset", <<"HEAD">> >>,
       <<"fetch", <<>> >>,
       <<"track_all", IF options.clean_branches THEN <<"clean">> ELSE <<>> >>,
       <<"checkout", whence>>,
       <<"reset", <<"origin/">> \o whence>>,
       <<"pull", whence>>,
       <<"checkout", whither>>,
       <<"reset", <<"origin/">> \o whither>>,
       <<"pull", whither>>,
       <<"show_sha", <<>> >>,
       <<"merge", whence>>,
       <<"show_sha", <<>> >>,
       <<"show", <<>> >> >>

\* <<op, arg>> of the calls of the current Merge Operation
OpCallNames ==
    LET oc == OpCalls IN [k \in 1..Len(oc) |-> <<oc[k].op, oc[k].arg>>]

\* the calls of the current Merge Operation follow the order of ExpectedCalls,
\* none repeated, and are all there up to the report once the report has run
CallsInOrder ==
    LET got == OpCallNames IN
    /\ Len(got) <= Len(ExpectedCalls)
    /\ got = SubSeq(ExpectedCalls, 1, Len(got))
    /\ Reported => Len(got) = (IF sha_before = sha_after THEN 13 ELSE 14)
    /\ Len(got) >= 13 => (Reported \/ pc \in {"report", "failed"})

\* C13: the git commands of a Merge Operation whose steps succeed run in the
\* order config set, reset HEAD, fetch, track-all, synchronize(whence),
\* synchronize(whither), SHA before, merge(whence), SHA after, report, none of
\* them twice; and a failed run stays failed
C13_StepOrderNoRetry ==
    /\ [](started # <<>> => CallsInOrder)
    /\ [][pc = "failed" => pc' = "failed"]_vars

C13_Witness ==
    /\ pc = "push"
    /\ whence = A
    /\ whither = B
    /\ Len(OpCalls) = 14
    /\ \A k \in 1..Len(calls) : calls[k].ret = 0

\* the git_checkout calls of the current Merge Operation
OpCheckouts == SelectSeq(OpCalls, LAMBDA c : c.op = "checkout")

\* the branch of the last git_checkout of the run that returned 0 (<<>>: none)
LastCheckedOut ==
    LET ok == SelectSeq(calls, LAMBDA c : c.op = "checkout" /\ c.ret = 0)
    IN  IF ok = <<>> THEN <<>> ELSE ok[Len(ok)].arg

\* C14: when git_merge is about to run or has run, the branch checked out is
\* whither: the last successful checkout was of whither, and the Merge
\* Operation checked out whence and then whither, both successfully
C14_MergeIntoWhither ==
    (started # <<>> /\ (pc = "merge" \/ Count(OpCalls, "merge") > 0)) =>
        /\ checked_out = whither
        /\ LastCheckedOut = whither
        /\ Len(OpCheckouts) = 2
        /\ OpCheckouts[1].arg = whence /\ OpCheckouts[1].ret = 0
        /\ OpCheckouts[2].arg = whither /\ OpCheckouts[2].ret = 0

C14_Witness ==
    /\ Count(OpCalls, "merge") = 1
    /\ whence = B
    /\ whither = C
    /\ checked_out = C
    /\ Len(started) = 2

C16_EveryFailureReported ==
    pc = "failed" => reports = <<failure>>

\* the run has ended: main returned (exit status 0) or an assert failed
Terminal == pc \in {"done", "failed"}

\* the Merge Operations a run is to perform: the plan of --up, or the one pair
PlannedPairs ==
    IF Truthy(options.branch_list_str)
    THEN Len(branch_list) - (IF Len(branch_list) = 0 THEN 0 ELSE 1)
    ELSE 1

\* C17: every run ends, either done or failed; it is done only when every
\* planned Merge Operation has returned and nothing failed, failed only with a
\* failure; it stops nowhere else and nothing follows its end
C17_RunTerminates ==
    /\ <>Terminal
    /\ [](pc = "done" => /\ failure = "none"
                         /\ Len(started) = PlannedPairs
                         /\ completed = PlannedPairs)
    /\ [](pc = "failed" => failure # "none")
    /\ [](~Terminal => ENABLED Next)
    /\ [][Terminal => pc' = pc]_vars

C17_Witness ==
    /\ pc = "done"
    /\ branch_list = <<A, B, C>>
    /\ completed = 2
    /\ failure = "none"
    /\ ~options.do_push

AllOk == \A k \in 1..Len(calls) : calls[k].ret = 0

\* C18: in the chained run [a,b,c] where every git command succeeds (and
\* nothing is pushed), pair (a,b) leaves local b holding origin/a and origin/b;
\* the reset of b in pair (b,c) brings local b back to origin/b, so that c ends
\* up holding origin/b and origin/c only: a change that only a holds on origin
\* does not reach c
C18_ChainDropsEarlierMerge ==
    (branch_list = <<A, B, C>> /\ AllOk) =>
        /\ (Len(started) = 1 /\ Count(OpCalls, "merge") = 1)
              => repo.local[B] = repo.origin[A] \cup repo.origin[B]
        /\ (Len(started) = 2 /\ Len(OpCalls) >= 6)
              => repo.local[B] = repo.origin[B]
        /\ (Len(started) = 2 /\ Count(OpCalls, "merge") = 1)
              => /\ repo.local[C] = repo.origin[B] \cup repo.origin[C]
                 /\ \A ch \in repo.origin[A] \ (repo.origin[B] \cup repo.origin[C]) :
                        ch \notin repo.local[C]

C18_Witness ==
    /\ branch_list = <<A, B, C>>
    /\ AllOk
    /\ pc = "done"
    /\ completed = 2
    /\ "x" \in repo.origin[A]
    /\ "x" \notin repo.origin[B] \cup repo.origin[C]
    /\ "x" \notin repo.local[C]

====
